---- MODULE Spec2Model ----
(***************************************************************************)
(* Model of the media-gallery compressor: compressor.py (the entry point,  *)
(* the per-file worker, the selection of compressed vs. original file, the *)
(* final consistency check, the temp clean-up), compression_utilities.py   *)
(* (the image / video adapters and their extension corrections),           *)
(* file_utilities.py (directory scaffolding, lowercase extension) and      *)
(* cli_utilities.py (the options).                                         *)
(*                                                                         *)
(* File names are sequences of one-character strings, so that splitext,    *)
(* lower(), endswith, slicing and Python's string order are computed as    *)
(* the library computes them.  A tree is a function from the paths         *)
(* relative to its root (the root itself is ".") to the entry found there. *)
(***************************************************************************)
EXTENDS Integers, Sequences, FiniteSets, TLC

VARIABLES
    args,              \* the parsed command line (argparse.Namespace)
    input,             \* the tree under args.input_directory
    temp,              \* the tree under args.temp_directory
    out,               \* the tree under args.output_directory
    phase,             \* position of the main process in __main__
    fatal,             \* the exception that ended the run, "" if none
    all_input_files,   \* glob of the input tree (order abstracted)
    all_output_files,  \* glob of the output tree (order abstracted)
    sorted_input,      \* all_input_files after .sort() in the verifier
    sorted_output,     \* all_output_files after .sort() in the verifier
    reported,          \* the collisions printed: <<canonical name, count>>
    pc,                \* per task of the pool: position in compress_single_file
    tempname,          \* per task: local temp_filename after the adapter ran
    outname,           \* per task: local output_filename of the resolver
    first_run          \* how an earlier run on the same input and options,
                       \* into other output and temp roots, ended; NoRun if none

vars == <<args, input, temp, out, phase, fatal, all_input_files,
          all_output_files, sorted_input, sorted_output, reported,
          pc, tempname, outname, first_run>>

----------------------------------------------------------------------------
(* Bounds of the model.                                                    *)

\* most entries (files and directories) below the input root
MaxEntries == 2
\* largest file size, in bytes, of an input file or of a codec candidate
MaxSize == 2
\* number of CPUs of the host, multiprocessing.cpu_count()
CpuCount == 2

Sizes == 0..MaxSize

----------------------------------------------------------------------------
(* Strings.                                                                *)

\* the characters used, in code point order (Python compares str by code point)
Alphabet == <<".", "/", "3", "4", "M", "O", "V", "_", "a", "b", "c", "e", "g",
              "h", "j", "m", "n", "o", "p", "t", "v", "x">>

Ord(ch) == CHOOSE i \in 1..Len(Alphabet) : Alphabet[i] = ch

\* str.__lt__: lexicographic by code point, a proper prefix is smaller
StrLess(s, t) ==
    \/ /\ Len(s) < Len(t)
       /\ \A i \in 1..Len(s) : s[i] = t[i]
    \/ \E i \in 1..Len(s) :
          /\ i <= Len(t)
          /\ \A j \in 1..(i - 1) : s[j] = t[j]
          /\ Ord(s[i]) < Ord(t[i])

StrLeq(s, t) == s = t \/ StrLess(s, t)

\* str.lower() on one character
LowerChar(ch) ==
    CASE ch = "M" -> "m"
      [] ch = "O" -> "o"
      [] ch = "V" -> "v"
      [] OTHER -> ch

\* str.lower()
Lower(s) == [i \in 1..Len(s) |-> LowerChar(s[i])]

\* str.rfind(ch) + 1: the last position of ch in s, 0 when absent
RFind(s, ch) ==
    LET hits == {i \in 1..Len(s) : s[i] = ch}
    IN  IF hits = {} THEN 0 ELSE CHOOSE i \in hits : \A j \in hits : j <= i

\* str.endswith(suffix); every string ends with the empty string
EndsWith(s, suffix) ==
    /\ Len(suffix) <= Len(s)
    /\ SubSeq(s, Len(s) - Len(suffix) + 1, Len(s)) = suffix

\* the slice s[:k] of Python: a negative k counts from the end, and
\* k = 0 (also written -0) is the empty slice
PySliceTo(s, k) ==
    LET stop == IF k < 0 THEN (IF Len(s) + k < 0 THEN 0 ELSE Len(s) + k)
                ELSE (IF k > Len(s) THEN Len(s) ELSE k)
    IN  SubSeq(s, 1, stop)

\* os.path.splitext (genericpath._splitext with sep "/" and extsep "."):
\* the extension starts at the last dot of the last component, unless that
\* component has only dots before it
splitext(p) ==
    LET sepIndex == RFind(p, "/")
        dotIndex == RFind(p, ".")
    IN  IF /\ dotIndex > sepIndex
           /\ \E k \in (sepIndex + 1)..(dotIndex - 1) : p[k] # "."
        THEN <<SubSeq(p, 1, dotIndex - 1), SubSeq(p, dotIndex, Len(p))>>
        ELSE <<p, <<>> >>

\* file_utilities.lowercase_file_extension
lowercase_file_extension(filename) == Lower(splitext(filename)[2])

----------------------------------------------------------------------------
(* Program constants.                                                      *)

IMPLEMENTED_IMAGE_FORMATS ==
    { <<".", "j", "p", "g">>, <<".", "j", "p", "e", "g">>, <<".", "p", "n", "g">> }

IMPLEMENTED_VIDEO_FORMATS ==
    { <<".", "m", "p", "4">>, <<".", "m", "o", "v">>, <<".", "3", "g", "p">> }

\* the value of --maximum-expected-compression when the option is not given
DefaultMaximumExpectedCompression == 99

----------------------------------------------------------------------------
(* The input trees and the options the model draws from.                   *)

Root == <<".">>

\* names below the input root: an image, an image whose stem is that of the
\* first followed by the tag "_c", a video with the stem of the first and an
\* upper-case extension, a file of no implemented type and a hidden file;
\* and one directory, whose name ends with the tag
FileNames ==
    { <<"a", ".", "j", "p", "g">>,
      <<"a", "_", "c", ".", "j", "p", "g">>,
      <<"a", ".", "M", "O", "V">>,
      <<"c", ".", "t", "x", "t">>,
      <<".", "h">> }

DirNames == { <<"a", "_", "c">> }

\* values of --suffix: the empty string and a tag
Suffixes == { <<>>, <<"_", "c">> }

\* values of --maximum-expected-compression
Ceilings == {0, DefaultMaximumExpectedCompression}

DirEntry == [kind |-> "dir", size |-> 0, codec |-> "none", csize |-> 0]

\* What a file is, as far as the run can tell: its size, and what the adapter
\* its extension selects will make of its content.  codec is Pillow's
\* im.format ("unidentified": Image.open raises) for an image extension and
\* ffmpeg's outcome for a video extension; csize is the size of the
\* candidate the codec writes.  An empty file is no valid image or video.
FileEntries(name) ==
    LET ext == lowercase_file_extension(name)
    IN  IF ext \in IMPLEMENTED_IMAGE_FORMATS
        THEN { [kind |-> "file", size |-> s, codec |-> c, csize |-> cs] :
                 s \in Sizes \ {0}, c \in {"JPEG", "PNG"}, cs \in Sizes }
             \cup
             { [kind |-> "file", size |-> s, codec |-> c, csize |-> 0] :
                 s \in Sizes \ {0}, c \in {"GIF", "unidentified"} }
             \cup
             { [kind |-> "file", size |-> 0, codec |-> "unidentified", csize |-> 0] }
        ELSE IF ext \in IMPLEMENTED_VIDEO_FORMATS
        THEN { [kind |-> "file", size |-> s, codec |-> "ffmpeg_ok", csize |-> cs] :
                 s \in Sizes \ {0}, cs \in Sizes }
             \cup
             { [kind |-> "file", size |-> s, codec |-> "ffmpeg_failed", csize |-> 0] :
                 s \in Sizes }
        ELSE { [kind |-> "file", size |-> s, codec |-> "none", csize |-> 0] :
                 s \in Sizes }

Entries(name) == IF name \in DirNames THEN {DirEntry} ELSE FileEntries(name)

AllEntries == UNION { Entries(name) : name \in FileNames \cup DirNames }

\* the input trees: the root and at most MaxEntries entries below it
InputTrees ==
    UNION { { t \in [names \cup {Root} -> AllEntries \cup {DirEntry}] :
                /\ t[Root] = DirEntry
                /\ \A n \in names : t[n] \in Entries(n) } :
            names \in { ns \in SUBSET (FileNames \cup DirNames) :
                           Cardinality(ns) <= MaxEntries } }

----------------------------------------------------------------------------
(* Trees.                                                                  *)

NoTree == [p \in {} |-> DirEntry]

Put(tree, p, entry) ==
    [q \in DOMAIN tree \cup {p} |-> IF q = p THEN entry ELSE tree[q]]

Del(tree, p) == [q \in DOMAIN tree \ {p} |-> tree[q]]

\* os.path.exists
exists(tree, p) == p \in DOMAIN tree

\* os.path.isfile
isfile(tree, p) == p \in DOMAIN tree /\ tree[p].kind = "file"

\* mutant of RemoveIfExists: the file is left where it is
NeverRemove(tree, p) == tree

\* compressor.py lines 43-44, compress_video lines 110-111:
\* if os.path.exists(p): os.remove(p)
RemoveIfExists(tree, p) == IF exists(tree, p) THEN Del(tree, p) ELSE tree

Files(tree) == {p \in DOMAIN tree : tree[p].kind = "file"}

Dirs(tree) == {p \in DOMAIN tree : tree[p].kind = "dir"}

\* glob._ishidden on each component of a path below the root
IsHidden(p) ==
    /\ p # Root
    /\ \/ p[1] = "."
       \/ \E i \in 1..(Len(p) - 1) : p[i] = "/" /\ p[i + 1] = "."

\* glob.glob(os.path.join(root, "**"), recursive=True): the root itself and
\* every path below it, directories included, except the hidden ones
\* (include_hidden is left at its default, False)
Glob(tree) == {p \in DOMAIN tree : ~IsHidden(p)}

\* the content of input file p, and of the candidate a codec makes of it
Original(p) == <<"original", p>>
Candidate(p) == <<"candidate", p>>

\* the access and modification times of input file p
TimesOf(p) == <<"times", p>>

\* the access and modification times of a file or directory just created
Now == <<"now">>

----------------------------------------------------------------------------
(* The run.  The state after construction is the one in which the command  *)
(* line has been parsed and validated: the input root exists, the output   *)
(* and temp roots do not.                                                  *)

\* a directory created in the output or temp tree
NewDir == [kind |-> "dir", content |-> <<>>, size |-> 0, times |-> Now]

\* the pool of compress_all_files: Pool() is given no size, so it has
\* os.cpu_count() worker processes, whatever args.processes is
PoolSize == CpuCount

\* no earlier run
NoRun == [fatal |-> "none", out |-> NoTree, sorted_output |-> <<>>]

\* the state in which __main__ calls prepare_directories
Validated ==
    /\ temp = NoTree
    /\ out = NoTree
    /\ phase = "prepare"
    /\ fatal = ""
    /\ all_input_files = {}
    /\ all_output_files = {}
    /\ sorted_input = <<>>
    /\ sorted_output = <<>>
    /\ reported = {}
    /\ pc = <<>>
    /\ tempname = <<>>
    /\ outname = <<>>

Init ==
    /\ args \in [suffix : Suffixes,
                  processes : 1..CpuCount,
                  maximum_expected_compression : Ceilings]
    /\ input \in InputTrees
    /\ first_run = NoRun
    /\ Validated

\* an uncaught exception: in the main process it ends the run; in a worker
\* it is re-raised in the main process by imap_unordered, and leaving the
\* "with Pool()" block terminates the workers wherever they are
Raise(exception) ==
    /\ phase' = "aborted"
    /\ fatal' = exception

\* file_utilities.prepare_directories: copytree of the input root to the
\* output and to the temp root, ignoring every regular file
prepare_directories ==
    /\ phase = "prepare"
    /\ out' = [p \in Dirs(input) |-> NewDir]
    /\ temp' = [p \in Dirs(input) |-> NewDir]
    /\ phase' = "glob"
    /\ UNCHANGED <<args, first_run, input, fatal, all_input_files, all_output_files,
                   sorted_input, sorted_output, reported, pc, tempname, outname>>

\* __main__: all_input_files = glob.glob(input_directory/**, recursive=True)
GlobInput ==
    /\ phase = "glob"
    /\ all_input_files' = Glob(input)
    /\ phase' = "collisions"
    /\ UNCHANGED <<args, first_run, input, temp, out, fatal, all_output_files,
                   sorted_input, sorted_output, reported, pc, tempname, outname>>

\* mutant of NameCount: the paths are counted with their extensions
NameCountWithExtension(name) ==
    Cardinality({f \in all_input_files : f = name})

\* Counter([splitext(relpath(f))[0] for f in all_input_files])
NameCount(name) ==
    Cardinality({f \in all_input_files : splitext(f)[1] = name})

\* __main__: the check for file name collisions; on none, the pool is
\* created and every listed path becomes a task
DetectCollisions ==
    /\ phase = "collisions"
    /\ LET collisions == { <<splitext(f)[1], NameCount(splitext(f)[1])>> :
                             f \in {g \in all_input_files :
                                       NameCount(splitext(g)[1]) > 1} }
       IN  /\ reported' = collisions
           /\ IF collisions # {}
              THEN /\ Raise("ValueError: file name collisions detected")
                   /\ UNCHANGED <<pc, tempname, outname>>
              ELSE /\ phase' = "pool"
                   /\ fatal' = fatal
                   /\ pc' = [f \in all_input_files |-> "queued"]
                   /\ tempname' = [f \in all_input_files |-> f]
                   /\ outname' = [f \in all_input_files |-> f]
    /\ UNCHANGED <<args, first_run, input, temp, out, all_input_files, all_output_files,
                   sorted_input, sorted_output>>

----------------------------------------------------------------------------
(* The workers: compress_single_file, one task per listed path.  The tasks *)
(* are handed out in list order, which is the order glob found them in, so *)
(* any queued task may be the next one taken.                              *)

Running == {f \in DOMAIN pc : pc[f] \notin {"queued", "done"}}

\* a worker takes the task and tests os.path.isfile(input_filename)
StartTask(f) ==
    /\ phase = "pool"
    /\ pc[f] = "queued"
    /\ Cardinality(Running) < PoolSize
    /\ pc' = [pc EXCEPT ![f] = IF isfile(input, f) THEN "started" ELSE "done"]
    /\ UNCHANGED <<args, first_run, input, temp, out, phase, fatal, all_input_files,
                   all_output_files, sorted_input, sorted_output, reported,
                   tempname, outname>>

\* a regular file written by shutil.copyfile from input file f
CopyOf(f) ==
    [kind |-> "file", content |-> Original(f), size |-> input[f].size,
     times |-> Now]

\* the claimed extension is not implemented: shutil.copyfile to the output
CopyUnimplemented(f) ==
    /\ phase = "pool"
    /\ pc[f] = "started"
    /\ lowercase_file_extension(f)
          \notin IMPLEMENTED_IMAGE_FORMATS \cup IMPLEMENTED_VIDEO_FORMATS
    /\ IF exists(input, f)
       THEN /\ out' = Put(out, f, CopyOf(f))
            /\ pc' = [pc EXCEPT ![f] = "done"]
            /\ UNCHANGED <<phase, fatal>>
       ELSE /\ Raise("FileNotFoundError")
            /\ UNCHANGED <<out, pc>>
    /\ UNCHANGED <<args, first_run, input, temp, all_input_files, all_output_files,
                   sorted_input, sorted_output, reported, tempname, outname>>

\* compression_utilities.correct_image_extension_if_needed: the lowercase
\* extension keeps its dot, so it never equals "jpg" or "png" and the
\* extension is always rewritten for a JPEG or a PNG
correct_image_extension_if_needed(image_format, temp_filename) ==
    LET temp_extension == lowercase_file_extension(temp_filename)
    IN  IF image_format = "JPEG" /\ temp_extension # <<"j", "p", "g">>
        THEN splitext(temp_filename)[1] \o <<".", "j", "p", "g">>
        ELSE IF image_format = "PNG" /\ temp_extension # <<"p", "n", "g">>
        THEN splitext(temp_filename)[1] \o <<".", "p", "n", "g">>
        ELSE temp_filename

\* compression_utilities.correct_video_extension
correct_video_extension(temp_filename) ==
    splitext(temp_filename)[1] \o <<".", "m", "p", "4">>

\* the file a codec writes for input file f
CandidateOf(f) ==
    [kind |-> "file", content |-> Candidate(f), size |-> input[f].csize,
     times |-> Now]

\* mutant of SavesCandidate: every format Pillow identifies is saved
SavesAnyFormat(image_format) == image_format # "unidentified"

\* compress_image, lines 59-62: only a JPEG or a PNG is saved
SavesCandidate(image_format) == image_format \in {"JPEG", "PNG"}

\* compression_utilities.compress_image: Image.open raises on a file that
\* is missing or is no image, and nothing catches it; a JPEG or PNG is
\* saved to the corrected temp name, any other format is left alone
compress_image(f) ==
    /\ phase = "pool"
    /\ pc[f] = "started"
    /\ lowercase_file_extension(f) \in IMPLEMENTED_IMAGE_FORMATS
    /\ IF ~exists(input, f)
       THEN /\ Raise("FileNotFoundError")
            /\ UNCHANGED <<temp, pc, tempname>>
       ELSE IF input[f].codec = "unidentified"
       THEN /\ Raise("UnidentifiedImageError")
            /\ UNCHANGED <<temp, pc, tempname>>
       ELSE LET temp_filename ==
                    correct_image_extension_if_needed(input[f].codec, f)
            IN  /\ temp' = IF SavesCandidate(input[f].codec)
                           THEN Put(temp, temp_filename, CandidateOf(f))
                           ELSE temp
                /\ tempname' = [tempname EXCEPT ![f] = temp_filename]
                /\ pc' = [pc EXCEPT ![f] = "compressed"]
                /\ UNCHANGED <<phase, fatal>>
    /\ UNCHANGED <<args, first_run, input, out, all_input_files, all_output_files,
                   sorted_input, sorted_output, reported, outname>>

\* compression_utilities.compress_video: ffmpeg writes the candidate, or
\* fails, with or without a partial file, which is then removed
compress_video(f) ==
    /\ phase = "pool"
    /\ pc[f] = "started"
    /\ lowercase_file_extension(f) \in IMPLEMENTED_VIDEO_FORMATS
    /\ LET temp_filename == correct_video_extension(f)
       IN  /\ \/ /\ exists(input, f)
                 /\ input[f].codec = "ffmpeg_ok"
                 /\ temp' = Put(temp, temp_filename, CandidateOf(f))
              \/ /\ exists(input, f) => input[f].codec = "ffmpeg_failed"
                 /\ \E partial \in BOOLEAN :
                       LET written == IF partial /\ exists(input, f)
                                      THEN Put(temp, temp_filename,
                                               [CandidateOf(f) EXCEPT !.size = 0])
                                      ELSE temp
                       IN  temp' = RemoveIfExists(written, temp_filename)
           /\ tempname' = [tempname EXCEPT ![f] = temp_filename]
    /\ pc' = [pc EXCEPT ![f] = "compressed"]
    /\ UNCHANGED <<args, first_run, input, out, phase, fatal, all_input_files,
                   all_output_files, sorted_input, sorted_output, reported,
                   outname>>

----------------------------------------------------------------------------
(* choose_compression_or_original_file.  The two existence tests, the      *)
(* write and the timestamp update are separate system calls of a worker    *)
(* process, so the other workers may run between them.                     *)

\* mutant of InputIsGone: the resolver does not test the input file
InputNeverGone(f) == FALSE

\* line 26: not os.path.exists(input_filename)
InputIsGone(f) == ~exists(input, f)

\* lines 26-34: the input must exist and the intended output must not
ResolverCheck(f) ==
    /\ phase = "pool"
    /\ pc[f] = "compressed"
    /\ IF InputIsGone(f)
       THEN /\ Raise("ValueError: input file no longer exists")
            /\ pc' = pc
       ELSE IF exists(out, outname[f])
       THEN /\ Raise("ValueError: file collision in the output directory")
            /\ pc' = pc
       ELSE /\ pc' = [pc EXCEPT ![f] = "checked"]
            /\ UNCHANGED <<phase, fatal>>
    /\ UNCHANGED <<args, first_run, input, temp, out, all_input_files, all_output_files,
                   sorted_input, sorted_output, reported, tempname, outname>>

\* mutant of CandidateIsSmaller: a candidate of equal size counts as smaller
CandidateIsNotLarger(f) ==
    /\ exists(temp, tempname[f])
    /\ temp[tempname[f]].size <= input[f].size

\* line 36: the candidate exists and is strictly smaller than the input
CandidateIsSmaller(f) ==
    /\ exists(temp, tempname[f])
    /\ temp[tempname[f]].size < input[f].size

\* mutant of CompressedName: the output keeps the extension of the input
CompressedNameOwnExtension(output_filename, temp_filename, suffix) ==
    splitext(output_filename)[1] \o suffix \o splitext(output_filename)[2]

\* lines 37-40: the name of a compressed output
CompressedName(output_filename, temp_filename, suffix) ==
    splitext(output_filename)[1] \o suffix \o splitext(temp_filename)[2]

\* lines 36-45: move the candidate to the suffixed name, or remove it and
\* copy the input; shutil.move and shutil.copyfile replace a file that is
\* already at the destination
ResolverWrite(f) ==
    /\ phase = "pool"
    /\ pc[f] = "checked"
    /\ IF ~exists(input, f)
       THEN /\ Raise("FileNotFoundError")
            /\ UNCHANGED <<temp, out, pc, outname>>
       ELSE /\ IF CandidateIsSmaller(f)
               THEN LET output_filename ==
                            CompressedName(outname[f], tempname[f], args.suffix)
                    IN  /\ out' = Put(out, output_filename, temp[tempname[f]])
                        /\ temp' = Del(temp, tempname[f])
                        /\ outname' = [outname EXCEPT ![f] = output_filename]
               ELSE /\ temp' = RemoveIfExists(temp, tempname[f])
                    /\ out' = Put(out, outname[f], CopyOf(f))
                    /\ outname' = outname
            /\ pc' = [pc EXCEPT ![f] = "written"]
            /\ UNCHANGED <<phase, fatal>>
    /\ UNCHANGED <<args, first_run, input, all_input_files, all_output_files,
                   sorted_input, sorted_output, reported, tempname>>

\* lines 48-49: os.utime(output_filename, times of the input file)
ResolverUtime(f) ==
    /\ phase = "pool"
    /\ pc[f] = "written"
    /\ IF ~exists(input, f)
       THEN /\ Raise("FileNotFoundError")
            /\ UNCHANGED <<out, pc>>
       ELSE /\ out' = [out EXCEPT ![outname[f]].times = TimesOf(f)]
            /\ pc' = [pc EXCEPT ![f] = "done"]
            /\ UNCHANGED <<phase, fatal>>
    /\ UNCHANGED <<args, first_run, input, temp, all_input_files, all_output_files,
                   sorted_input, sorted_output, reported, tempname, outname>>

----------------------------------------------------------------------------
(* The main process after the pool.                                        *)

\* mutant of PoolHasFinished: the main process does not wait for the tasks
PoolNeverWaits == TRUE

\* list(pool.imap_unordered(...)) has consumed a result for every task
PoolHasFinished == \A f \in DOMAIN pc : pc[f] = "done"

\* compress_all_files returns once every task is done; then
\* all_output_files = glob.glob(output_directory/**, recursive=True)
GlobOutput ==
    /\ phase = "pool"
    /\ PoolHasFinished
    /\ all_output_files' = Glob(out)
    /\ phase' = "verify"
    /\ UNCHANGED <<args, first_run, input, temp, out, fatal, all_input_files,
                   sorted_input, sorted_output, reported, pc, tempname, outname>>

\* mutant of relative_canonical_name: the suffix is stripped from the input
\* names too
relative_canonical_name_always_checks(filepath, suffix, check_suffix) ==
    LET relname == splitext(filepath)[1]
    IN  IF EndsWith(relname, suffix)
        THEN PySliceTo(relname, 0 - Len(suffix))
        ELSE relname

\* relative_canonical_name of the verifier; relname[:-len(suffix)] is the
\* empty string when the suffix is empty
relative_canonical_name(filepath, suffix, check_suffix) ==
    LET relname == splitext(filepath)[1]
    IN  IF check_suffix /\ EndsWith(relname, suffix)
        THEN PySliceTo(relname, 0 - Len(suffix))
        ELSE relname

InputKey(f) == relative_canonical_name(f, args.suffix, FALSE)
OutputKey(f) == relative_canonical_name(f, args.suffix, TRUE)

\* the results list.sort(key) can give for a list holding the paths of S in
\* the order glob found them: sort is stable, so paths with equal keys stay
\* in glob's order, which the file system decides
SortedBy(S, key) ==
    { s \in [1..Cardinality(S) -> S] :
        /\ \A i, j \in 1..Cardinality(S) : i # j => s[i] # s[j]
        /\ \A i \in 1..(Cardinality(S) - 1) : StrLeq(key[s[i]], key[s[i + 1]]) }

\* os.stat(path).st_size; the size of a directory is the file system's choice
StatSize(tree, p, dirsize) ==
    IF tree[p].kind = "dir" THEN dirsize ELSE tree[p].size

\* lines 125-126: 1 - output_size / input_size > maximum_expected_compression,
\* for input_size > 0
RateExceeds(input_size, output_size, maximum) ==
    input_size - output_size > maximum * input_size

\* lines 116-128: the loop over the zipped sorted lists, from index idx on;
\* the result is the exception raised, "" if none
RECURSIVE VerifyPairs(_, _, _, _)
VerifyPairs(idx, ins, outs, dirsize) ==
    IF idx > Len(ins) \/ idx > Len(outs)
    THEN ""
    ELSE LET input_filepath == ins[idx]
             output_filepath == outs[idx]
         IN  IF ~isfile(input, input_filepath) /\ ~isfile(out, output_filepath)
             THEN VerifyPairs(idx + 1, ins, outs, dirsize)
             ELSE IF InputKey(input_filepath) # OutputKey(output_filepath)
             THEN "RuntimeError: file did not match"
             ELSE IF ~exists(input, input_filepath)
             THEN "FileNotFoundError"
             ELSE IF StatSize(input, input_filepath, dirsize) = 0
             THEN "ZeroDivisionError"
             ELSE IF RateExceeds(StatSize(input, input_filepath, dirsize),
                                 StatSize(out, output_filepath, dirsize),
                                 args.maximum_expected_compression)
             THEN "RuntimeError: unrealistic compression rate"
             ELSE VerifyPairs(idx + 1, ins, outs, dirsize)

\* line 110: len(all_input_files) = len(all_output_files)
CountsMatch(inputs, outputs) == Cardinality(inputs) = Cardinality(outputs)

\* verify_compression_consistency
verify_compression_consistency ==
    /\ phase = "verify"
    /\ IF ~CountsMatch(all_input_files, all_output_files)
       THEN /\ Raise("RuntimeError: count of output files did not match")
            /\ UNCHANGED <<sorted_input, sorted_output>>
       ELSE \E ins \in SortedBy(all_input_files, [f \in all_input_files |-> InputKey(f)]),
               outs \in SortedBy(all_output_files, [f \in all_output_files |-> OutputKey(f)]),
               dirsize \in Sizes :
               LET raised == VerifyPairs(1, ins, outs, dirsize)
               IN  /\ sorted_input' = ins
                   /\ sorted_output' = outs
                   /\ IF raised # ""
                      THEN Raise(raised)
                      ELSE /\ phase' = "cleanup"
                           /\ fatal' = fatal
    /\ UNCHANGED <<args, first_run, input, temp, out, all_input_files, all_output_files,
                   reported, pc, tempname, outname>>

\* clean_up_temp_directory, then the summary of the output, which changes
\* nothing
clean_up_temp_directory ==
    /\ phase = "cleanup"
    /\ IF Glob(temp) \cap Files(temp) # {}
       THEN /\ Raise("RuntimeError: the temp directory is not empty")
            /\ temp' = temp
       ELSE /\ temp' = NoTree
            /\ phase' = "done"
            /\ fatal' = fatal
    /\ UNCHANGED <<args, first_run, input, out, all_input_files, all_output_files,
                   sorted_input, sorted_output, reported, pc, tempname, outname>>

Next ==
    \/ prepare_directories
    \/ GlobInput
    \/ DetectCollisions
    \/ \E f \in all_input_files : StartTask(f)
    \/ \E f \in all_input_files : CopyUnimplemented(f)
    \/ \E f \in all_input_files : compress_image(f)
    \/ \E f \in all_input_files : compress_video(f)
    \/ \E f \in all_input_files : ResolverCheck(f)
    \/ \E f \in all_input_files : ResolverWrite(f)
    \/ \E f \in all_input_files : ResolverUtime(f)
    \/ GlobOutput
    \/ verify_compression_consistency
    \/ clean_up_temp_directory

Spec == Init /\ [][Next]_vars

----------------------------------------------------------------------------
(* The claims.                                                             *)

\* a name with a trailing configured suffix removed, as the specification
\* words it: removing an empty suffix removes nothing
WithoutSuffix(name) ==
    IF args.suffix # <<>> /\ EndsWith(name, args.suffix)
    THEN SubSeq(name, 1, Len(name) - Len(args.suffix))
    ELSE name

\* the output files whose canonical name is that of input file f
OutputsFor(f) ==
    {q \in Files(out) : WithoutSuffix(splitext(q)[1]) = splitext(f)[1]}

\* C1: in every run that completes successfully, every regular file of the
\* input tree has exactly one file in the output tree with its canonical
\* name (extension removed, and a trailing suffix removed from the output's).
C1_OneOutputPerInputFile ==
    phase = "done" =>
        \A f \in Files(input) : Cardinality(OutputsFor(f)) = 1

\* the same for the files glob lists: it holds
C1_OneOutputPerListedFile ==
    phase = "done" =>
        \A f \in Files(input) \cap all_input_files :
            Cardinality(OutputsFor(f)) = 1

\* the step of task f in which the resolver writes the output
ResolverWrites(f) == pc[f] = "checked" /\ pc'[f] = "written"

\* C2: passthrough branch.  When the resolver writes the output of a file
\* whose candidate does not exist or is not strictly smaller than the input
\* (equal size included), the output is at the intended path (the input's
\* relative path), holds the input's content, and the candidate is gone.
C2_PassthroughBranch ==
    [][\A f \in DOMAIN pc :
         ( /\ ResolverWrites(f)
           /\ \/ ~exists(temp, tempname[f])
              \/ temp[tempname[f]].size >= input[f].size )
         => /\ outname'[f] = f
            /\ isfile(out', f)
            /\ out'[f].content = Original(f)
            /\ out'[f].size = input[f].size
            /\ ~exists(temp', tempname[f])]_vars

\* C2 witness: a candidate as large as its input was discarded and the
\* input copied to the intended path
C2_Witness ==
    \E f \in DOMAIN pc :
        /\ pc[f] = "written"
        /\ input[f].codec \in {"JPEG", "PNG", "ffmpeg_ok"}
        /\ input[f].csize = input[f].size
        /\ outname[f] = f
        /\ isfile(out, f)
        /\ out[f].content = Original(f)
        /\ ~exists(temp, tempname[f])

\* the name the claims give a compressed output: the intended path without
\* its extension, the suffix, the extension of the candidate
SuffixedName(f) ==
    splitext(f)[1] \o args.suffix \o splitext(tempname[f])[2]

\* the resolver's write for f moved the candidate to the suffixed name
MovedCandidate(f) ==
    /\ outname'[f] = SuffixedName(f)
    /\ isfile(out', SuffixedName(f))
    /\ out'[SuffixedName(f)].content = Candidate(f)
    /\ out'[SuffixedName(f)].size = input[f].csize
    /\ ~exists(temp', tempname[f])

\* the resolver's write for f left the unsuffixed intended path alone
IntendedPathUntouched(f) ==
    IF exists(out, f) THEN exists(out', f) /\ out'[f] = out[f]
                      ELSE ~exists(out', f)

\* C3 as claimed: compressed branch.  When the resolver writes the output
\* of a file whose candidate exists and is strictly smaller, the candidate
\* is moved to <intended path without extension><suffix><extension of the
\* candidate>, and no file is created at the unsuffixed intended path.
C3_CompressedBranchAsClaimed ==
    [][\A f \in DOMAIN pc :
         ( /\ ResolverWrites(f)
           /\ exists(temp, tempname[f])
           /\ temp[tempname[f]].size < input[f].size )
         => MovedCandidate(f) /\ IntendedPathUntouched(f)]_vars

\* C3 as amended: the same, the unsuffixed intended path being left alone
\* whenever the suffixed name differs from it (with an empty suffix and a
\* candidate that keeps the input's extension the two are the same path).
C3_CompressedBranch ==
    [][\A f \in DOMAIN pc :
         ( /\ ResolverWrites(f)
           /\ exists(temp, tempname[f])
           /\ temp[tempname[f]].size < input[f].size )
         => /\ MovedCandidate(f)
            /\ SuffixedName(f) # f => IntendedPathUntouched(f)]_vars

\* C3 witness: a video's smaller candidate, whose extension the adapter
\* changed, is the output under the suffixed name
C3_Witness ==
    \E f \in DOMAIN pc :
        /\ pc[f] = "written"
        /\ input[f].codec = "ffmpeg_ok"
        /\ input[f].csize < input[f].size
        /\ args.suffix # <<>>
        /\ outname[f] = splitext(f)[1] \o args.suffix \o <<".", "m", "p", "4">>
        /\ isfile(out, outname[f])
        /\ out[outname[f]].content = Candidate(f)
        /\ ~exists(out, f)
        /\ ~exists(temp, tempname[f])

\* the extension of f is not an implemented one
UnimplementedExtension(f) ==
    lowercase_file_extension(f)
        \notin IMPLEMENTED_IMAGE_FORMATS \cup IMPLEMENTED_VIDEO_FORMATS

\* f has an image extension and Pillow finds a format other than JPEG / PNG
OtherImageFormat(f) ==
    /\ lowercase_file_extension(f) \in IMPLEMENTED_IMAGE_FORMATS
    /\ input[f].codec \notin {"JPEG", "PNG", "unidentified"}

\* the temp files made from input file f
TempFilesOf(f) == {t \in Files(temp) : temp[t].content = Candidate(f)}

\* no temp file of an unrecognized file: never for an unimplemented
\* extension, and not once the processing of the file has ended otherwise
NoTempOfUnrecognized ==
    \A f \in DOMAIN pc :
        ( /\ isfile(input, f)
          /\ \/ UnimplementedExtension(f)
             \/ OtherImageFormat(f) /\ pc[f] = "done" )
        => TempFilesOf(f) = {} /\ ~isfile(temp, tempname[f])

\* C4: an unrecognized file (unimplemented extension, or an image extension
\* with a format other than JPEG / PNG) is written to the output as a
\* verbatim copy at its own relative path; no temp file of it exists once
\* its processing has ended, and none ever for an unimplemented extension.
C4_UnrecognizedIsCopied ==
    /\ []NoTempOfUnrecognized
    /\ [][\A f \in DOMAIN pc :
            ( /\ isfile(input, f)
              /\ \/ /\ UnimplementedExtension(f)
                    /\ pc[f] = "started" /\ pc'[f] = "done"
                 \/ /\ OtherImageFormat(f)
                    /\ ResolverWrites(f) )
            => /\ isfile(out', f)
               /\ out'[f].content = Original(f)
               /\ out'[f].size = input[f].size
               /\ outname'[f] = f]_vars

\* C4 witness: a file of an unimplemented extension and an image of another
\* format have both been processed and copied
C4_Witness ==
    \E f, g \in DOMAIN pc :
        /\ isfile(input, f) /\ UnimplementedExtension(f) /\ pc[f] = "done"
        /\ isfile(input, g) /\ OtherImageFormat(g) /\ pc[g] = "done"
        /\ isfile(out, f) /\ out[f].content = Original(f)
        /\ isfile(out, g) /\ out[g].content = Original(g)
        /\ Files(temp) = {}

\* C5: the resolver never writes over an existing output file: the path it
\* writes, in either branch, does not exist when it is written.
C5_ResolverNeverOverwrites ==
    [][\A f \in DOMAIN pc :
         ResolverWrites(f) => ~exists(out, outname'[f])]_vars

\* the regular files glob listed
ListedFiles == Files(input) \cap all_input_files

\* the canonical names two listed regular files share
CollidingNames ==
    { splitext(f)[1] : f \in {g \in ListedFiles :
         \E h \in ListedFiles : h # g /\ splitext(h)[1] = splitext(g)[1]} }

\* C6: if two listed input files share a canonical name, the run aborts
\* before any task exists: no codec has run, the output and temp trees hold
\* no file, and every colliding name is reported with the number of listed
\* paths that have it.
C6_CollisionAbortsBeforeDispatch ==
    (phase \notin {"prepare", "glob", "collisions"} /\ CollidingNames # {})
    => /\ phase = "aborted"
       /\ fatal = "ValueError: file name collisions detected"
       /\ pc = <<>>
       /\ Files(out) = {}
       /\ Files(temp) = {}
       /\ \A name \in CollidingNames :
             <<name, Cardinality({g \in all_input_files : splitext(g)[1] = name})>>
                 \in reported

\* C6 witness: an image and a video named "a" aborted the run
C6_Witness ==
    /\ phase = "aborted"
    /\ CollidingNames = { <<"a">> }
    /\ reported = { << <<"a">>, 2 >> }
    /\ Files(out) = {}

\* the codec failed on input file f
CodecFails(f) ==
    /\ isfile(input, f)
    /\ \/ /\ lowercase_file_extension(f) \in IMPLEMENTED_IMAGE_FORMATS
          /\ input[f].codec = "unidentified"
       \/ /\ lowercase_file_extension(f) \in IMPLEMENTED_VIDEO_FORMATS
          /\ input[f].codec = "ffmpeg_failed"

\* C7: a codec failure on a file, image or video, never aborts the run;
\* once the file is processed it has no temp candidate and its output is
\* the original under its own name.
C7_CodecFailureNeverAborts ==
    /\ fatal # "UnidentifiedImageError"
    /\ \A f \in DOMAIN pc :
          (CodecFails(f) /\ pc[f] = "done")
          => /\ TempFilesOf(f) = {}
             /\ isfile(out, f)
             /\ out[f].content = Original(f)

\* the canonical names the claims compare
ClaimInputName(f) == splitext(f)[1]
ClaimOutputName(q) == WithoutSuffix(splitext(q)[1])

\* the regular files glob listed in the output tree
ListedOutputFiles == Files(out) \cap all_output_files

\* C8: in a run the verifier passed, the output files are as many as the
\* input files and, both sorted by canonical name (the suffix stripped from
\* the output's), the files at the same index have equal canonical names.
C8_VerifierPassMeansSameNames ==
    phase \in {"cleanup", "done"} =>
        /\ Cardinality(ListedOutputFiles) = Cardinality(ListedFiles)
        /\ \A ins \in SortedBy(ListedFiles, [f \in ListedFiles |-> ClaimInputName(f)]) :
           \A outs \in SortedBy(ListedOutputFiles, [f \in ListedOutputFiles |-> ClaimOutputName(f)]) :
           \A i \in 1..Len(ins) :
               ClaimInputName(ins[i]) = ClaimOutputName(outs[i])

\* C8 witness: the verifier passed a run with two files, one of them
\* compressed and suffixed
C8_Witness ==
    /\ phase = "done"
    /\ Cardinality(ListedFiles) = 2
    /\ \E f \in ListedFiles : outname[f] # f

\* C9: the verifier fails the run for every pair of files whose compression
\* rate exceeds the ceiling M, a percentage:
\* 100 * (input_size - output_size) > M * input_size.
C9_CeilingIsEnforced ==
    phase \in {"cleanup", "done"} =>
        \A i \in 1..Len(sorted_input) :
            (isfile(input, sorted_input[i]) /\ isfile(out, sorted_output[i]))
            => ~( 100 * (input[sorted_input[i]].size - out[sorted_output[i]].size)
                    > args.maximum_expected_compression
                        * input[sorted_input[i]].size )

\* C10: the files being processed at the same time are never more than the
\* configured worker count.
C10_AtMostProcessesRunning == Cardinality(Running) <= args.processes

\* C11: phase ordering.  Before the collision check has passed there is no
\* task and no file in the output or temp tree; the verifier and the temp
\* clean-up run only when every listed path has been processed to the end;
\* and a task moves only while the main process waits in the pool, so no
\* worker step falls between the steps of scaffolding, verification or
\* clean-up.
C11_PhaseOrdering ==
    /\ [](phase \in {"prepare", "glob", "collisions"}
            => pc = <<>> /\ Files(out) = {} /\ Files(temp) = {})
    /\ [](phase \in {"verify", "cleanup", "done"}
            => \A f \in all_input_files : f \in DOMAIN pc /\ pc[f] = "done")
    /\ [][(\E f \in DOMAIN pc : pc'[f] # pc[f])
            => phase = "pool" /\ phase' \in {"pool", "aborted"}]_vars
    /\ [][phase # "pool" => Files(out') = Files(out) /\ Files(temp') \subseteq Files(temp)]_vars

\* C11 witness: the verifier is about to run on two processed files
C11_Witness ==
    /\ phase = "verify"
    /\ Cardinality(ListedFiles) = 2
    /\ \A f \in ListedFiles : pc[f] = "done"
    /\ Cardinality(Files(out)) = 2

\* the listed regular files whose output has been written, and the path of
\* that output
Written == {f \in DOMAIN pc : isfile(input, f) /\ pc[f] \in {"written", "done"}}

\* C12: in a run that passed the collision check, no two input files are
\* resolved to the same final output path (suffix and corrected extension
\* included), so no output file is written by two workers.
C12_OutputPathsDisjoint ==
    \A f, g \in Written : f # g => outname[f] # outname[g]

----------------------------------------------------------------------------
(* Two runs of the program on the same input tree with the same options,  *)
(* the second into other output and temp roots.                            *)

\* how the run that just ended is remembered: its exception, its output
\* tree, and the order in which its verifier took the output listing
Outcome == [fatal |-> fatal, out |-> out, sorted_output |-> sorted_output]

\* __main__ is started again, with -o and -t naming directories that do not
\* exist, once the first run has ended
SecondRun ==
    /\ phase \in {"done", "aborted"}
    /\ first_run = NoRun
    /\ first_run' = Outcome
    /\ temp' = NoTree
    /\ out' = NoTree
    /\ phase' = "prepare"
    /\ fatal' = ""
    /\ all_input_files' = {}
    /\ all_output_files' = {}
    /\ sorted_input' = <<>>
    /\ sorted_output' = <<>>
    /\ reported' = {}
    /\ pc' = <<>>
    /\ tempname' = <<>>
    /\ outname' = <<>>
    /\ UNCHANGED <<args, input>>

\* options of the two runs: --processes is left at its default
InitTwoRuns == Init /\ args.processes = CpuCount

NextTwoRuns == Next \/ SecondRun

SpecTwoRuns == InitTwoRuns /\ [][NextTwoRuns]_vars

\* the names and contents of the regular files of an output tree
Contents(tree) == [p \in Files(tree) |-> <<tree[p].content, tree[p].size>>]

\* both runs have ended
BothRunsEnded == first_run # NoRun /\ phase \in {"done", "aborted"}

\* C13: for a fixed input tree and fixed options, two runs end the same way
\* (both succeed or both abort) and, when they succeed, their output trees
\* hold the same file names with the same contents, whatever the order in
\* which the workers ran.
C13_DeterministicOutcome ==
    BothRunsEnded =>
        /\ (first_run.fatal = "") <=> (fatal = "")
        /\ fatal = "" => Contents(out) = Contents(first_run.out)

\* the same for two runs whose verifiers were given the listing of the
\* output tree in the same order: it holds
C13_DeterministicGivenTheListing ==
    ( /\ BothRunsEnded
      /\ (sorted_output # <<>> /\ first_run.sorted_output # <<>>)
            => sorted_output = first_run.sorted_output )
    => /\ (first_run.fatal = "") <=> (fatal = "")
       /\ fatal = "" => Contents(out) = Contents(first_run.out)

\* C14: when a worker has finished a file, no temp file of that file exists
\* (by content or at the temp name the adapter returned); so once every task
\* has finished and nothing was raised, the temp tree holds no regular file.
C14_NoTempFileIsLeft ==
    /\ \A f \in DOMAIN pc :
          pc[f] = "done" => TempFilesOf(f) = {} /\ ~isfile(temp, tempname[f])
    /\ (pc # <<>> /\ PoolHasFinished /\ phase # "aborted") => Files(temp) = {}

\* C14 witness: all tasks have finished; one candidate was moved to the
\* output and another, not smaller than its input, was removed
C14_Witness ==
    /\ phase = "verify"
    /\ Files(temp) = {}
    /\ \E f, g \in Written :
          /\ input[f].codec \in {"JPEG", "PNG", "ffmpeg_ok"}
          /\ input[f].csize < input[f].size
          /\ out[outname[f]].content = Candidate(f)
          /\ input[g].codec \in {"JPEG", "PNG", "ffmpeg_ok"}
          /\ input[g].csize >= input[g].size
          /\ out[outname[g]].content = Original(g)

----------------------------------------------------------------------------
(* validate_arguments, on the command lines and directories it can meet.   *)
(* Here input, out and temp are the directories found at the three paths   *)
(* (NoTree where there is none); two paths of one directory find the same. *)

\* values of -i, -o and -t: three directories, one of them under two names
RootPaths == {"in", "./in", "out", "tmp"}

\* the directory a path names: os resolves "./in" as "in"
Directory(path) == IF path = "./in" THEN "in" ELSE path

\* a directory that exists before the run, holding one file
ExistingTree ==
    Put([p \in {Root} |-> DirEntry], <<"c", ".", "t", "x", "t">>,
        [kind |-> "file", size |-> 1, codec |-> "none", csize |-> 0])

InitValidation ==
    /\ args \in [input_directory : RootPaths,
                  output_directory : RootPaths,
                  temp_directory : RootPaths,
                  delete_existing : BOOLEAN,
                  suffix : {<<"_", "c">>},
                  processes : {CpuCount},
                  maximum_expected_compression : {DefaultMaximumExpectedCompression}]
    /\ \E disk \in [{Directory(p) : p \in RootPaths} -> {NoTree, ExistingTree}] :
          /\ input = disk[Directory(args.input_directory)]
          /\ out = disk[Directory(args.output_directory)]
          /\ temp = disk[Directory(args.temp_directory)]
    /\ phase = "validate"
    /\ fatal = ""
    /\ first_run = NoRun
    /\ all_input_files = {}
    /\ all_output_files = {}
    /\ sorted_input = <<>>
    /\ sorted_output = <<>>
    /\ reported = {}
    /\ pc = <<>>
    /\ tempname = <<>>
    /\ outname = <<>>

\* mutant of RootsAreUnique: the three paths are not compared
RootsNotCompared(a) == TRUE

\* line 50: len({input_directory, output_directory, temp_directory}) = 3,
\* a comparison of the strings
RootsAreUnique(a) ==
    Cardinality({a.input_directory, a.output_directory, a.temp_directory}) = 3

\* what is found at path after shutil.rmtree(fp), tree being what was found
\* there before
AfterRmtree(tree, path, fp) ==
    IF Directory(path) = Directory(fp) THEN NoTree ELSE tree

\* lines 56-59: with --delete-existing, rmtree of the output and of the temp
\* directory where they exist
AfterDeleteExisting(tree, path) ==
    LET afterOutput == IF args.delete_existing /\ out # NoTree
                       THEN AfterRmtree(tree, path, args.output_directory)
                       ELSE tree
        tempThen == IF args.delete_existing /\ out # NoTree
                    THEN AfterRmtree(temp, args.temp_directory,
                                     args.output_directory)
                    ELSE temp
    IN  IF args.delete_existing /\ tempThen # NoTree
        THEN AfterRmtree(afterOutput, path, args.temp_directory)
        ELSE afterOutput

\* cli_utilities.validate_arguments
validate_arguments ==
    /\ phase = "validate"
    /\ IF ~RootsAreUnique(args)
       THEN /\ Raise("ValueError: directories should all be unique")
            /\ UNCHANGED <<input, out, temp>>
       ELSE IF input = NoTree
       THEN /\ Raise("ValueError: input directory does not exist")
            /\ UNCHANGED <<input, out, temp>>
       ELSE /\ input' = AfterDeleteExisting(input, args.input_directory)
            /\ out' = AfterDeleteExisting(out, args.output_directory)
            /\ temp' = AfterDeleteExisting(temp, args.temp_directory)
            /\ IF out' # NoTree
               THEN Raise("ValueError: output directory should not exist")
               ELSE IF temp' # NoTree
               THEN Raise("ValueError: temp directory should not exist")
               ELSE phase' = "prepare" /\ fatal' = fatal
    /\ UNCHANGED <<args, first_run, all_input_files, all_output_files,
                   sorted_input, sorted_output, reported, pc, tempname, outname>>

NextValidation == validate_arguments

SpecValidation == InitValidation /\ [][NextValidation]_vars

\* the configurations the claim names: two roots equal, no input root, or
\* an output or temp root that exists without --delete-existing
InvalidConfiguration ==
    \/ args.input_directory = args.output_directory
    \/ args.input_directory = args.temp_directory
    \/ args.output_directory = args.temp_directory
    \/ input = NoTree
    \/ (out # NoTree \/ temp # NoTree) /\ ~args.delete_existing

\* C15: on an invalid configuration validation raises, and when it does
\* nothing has been created, deleted or modified: the three directories are
\* as they were found.
C15_InvalidConfigurationFailsUntouched ==
    [][(phase = "validate" /\ InvalidConfiguration)
         => /\ phase' = "aborted"
            /\ fatal' # ""
            /\ input' = input /\ out' = out /\ temp' = temp]_vars

\* C15 witness: -o names the input directory, with --delete-existing; the
\* run was refused and the directory is still there
C15_Witness ==
    /\ phase = "aborted"
    /\ fatal = "ValueError: directories should all be unique"
    /\ args.input_directory = args.output_directory
    /\ args.delete_existing
    /\ input = ExistingTree
    /\ out = ExistingTree

----------------------------------------------------------------------------
(* The input tree changing under the run: a regular file that glob listed  *)
(* is removed by another process while the run is between the listing and  *)
(* the end of the pool.                                                    *)

InputFileVanishes(f) ==
    /\ phase \in {"collisions", "pool"}
    /\ isfile(input, f)
    /\ input' = Del(input, f)
    /\ UNCHANGED <<args, first_run, temp, out, phase, fatal, all_input_files,
                   all_output_files, sorted_input, sorted_output, reported,
                   pc, tempname, outname>>

\* options of these runs: --processes is left at its default
InitVanishing == Init /\ args.processes = CpuCount

NextVanishing ==
    \/ Next
    \/ \E f \in all_input_files : InputFileVanishes(f)

SpecVanishing == InitVanishing /\ [][NextVanishing]_vars

\* the output and temp files made of input file f
MadeOf(f) ==
    {q \in Files(out) : out[q].content \in {Original(f), Candidate(f)}}
    \cup {t \in Files(temp) : temp[t].content = Candidate(f)}

\* the listed files that were gone when their worker started: their task has
\* ended, they are not in the input tree, nothing was made of them
Skipped ==
    {f \in DOMAIN pc : pc[f] = "done" /\ ~exists(input, f) /\ MadeOf(f) = {}}

\* the worker of a file that is gone returns at once: nothing is raised and
\* no file is created.  It holds.
C16_SkipIsSilent ==
    [][\A f \in DOMAIN pc :
         (pc[f] = "queued" /\ pc'[f] # "queued" /\ ~isfile(input, f))
         => /\ pc'[f] = "done"
            /\ phase' = phase /\ fatal' = fatal
            /\ out' = out /\ temp' = temp]_vars

\* C16: a listed file that is gone when its worker starts is tolerated: the
\* run is not aborted on its account, that is, the verifier does not raise
\* for a difference between the counts of input and output paths that is
\* exactly the number of skipped files.
C16_VanishedFileIsTolerated ==
    (Skipped # {} /\ fatal = "RuntimeError: count of output files did not match")
    => Cardinality(all_input_files) - Cardinality(Skipped)
           # Cardinality(all_output_files)

\* the positions of a task between the test of line 60 and the comparison
\* of the sizes in the resolver
InFlight == {"started", "compressed", "checked"}

\* input file f has vanished while its task was in flight
VanishedInFlight(f) == pc[f] \in InFlight /\ ~exists(input, f)

\* C18: a file that passed the test of line 60 and vanishes before the
\* resolver compares the sizes ends the run, whatever its kind: its task
\* takes no step but the failing run of ffmpeg on a video, it never gets
\* past the resolver's test of the input, the main process never leaves the
\* pool but by the abort, and nothing in the output tree is made of it.
C18_VanishedInFlightIsFatal ==
    /\ [](\A f \in DOMAIN pc :
             VanishedInFlight(f)
             => /\ phase \in {"pool", "aborted"}
                /\ \A q \in Files(out) :
                      out[q].content \notin {Original(f), Candidate(f)})
    /\ [][\A f \in DOMAIN pc :
            VanishedInFlight(f)
            => /\ phase' \in {"pool", "aborted"}
               /\ pc'[f] # pc[f]
                    => /\ lowercase_file_extension(f) \in IMPLEMENTED_VIDEO_FORMATS
                       /\ pc[f] = "started" /\ pc'[f] = "compressed"
                       /\ ~exists(temp', tempname'[f])]_vars

\* C18 witness: a video vanished after its worker started; ffmpeg failed on
\* it and the resolver ended the run
C18_Witness ==
    /\ phase = "aborted"
    /\ fatal = "ValueError: input file no longer exists"
    /\ \E f \in DOMAIN pc :
          /\ VanishedInFlight(f)
          /\ lowercase_file_extension(f) \in IMPLEMENTED_VIDEO_FORMATS
          /\ pc[f] = "compressed"
          /\ MadeOf(f) = {}

\* C17: only regular files are listed and grouped: a run whose regular input
\* files have pairwise distinct canonical names is never aborted by the
\* collision check, whatever the names of the directories.
C17_OnlyFilesCollide ==
    fatal = "ValueError: file name collisions detected" => CollidingNames # {}

\* C19: at the end of a completed run every output file, whether it came by
\* the compressed, the passthrough or the unrecognized path, carries the
\* access and modification times of its input file.
C19_OutputsCarryInputTimes ==
    phase = "done" =>
        \A f \in ListedFiles :
            isfile(out, outname[f]) /\ out[outname[f]].times = TimesOf(f)

\* the same for the files that went through the resolver: it holds
C19_ResolvedOutputsCarryInputTimes ==
    phase = "done" =>
        \A f \in ListedFiles :
            ~UnimplementedExtension(f)
            => isfile(out, outname[f]) /\ out[outname[f]].times = TimesOf(f)

----------------------------------------------------------------------------
(* The end of __main__ on the temp trees it can find: the pool has         *)
(* finished on an input tree of one file, copied unchanged, and the temp   *)
(* tree holds what the run and other processes have left in it.            *)

\* the file of the input tree
ReclaimerInputFile == <<"c", ".", "t", "x", "t">>

\* what may be left under the temp root: a candidate, a hidden file, a
\* subdirectory and a file in it
LeftoverNames ==
    { <<"a", ".", "j", "p", "g">>,
      <<".", "h">>,
      <<"a", "_", "c">>,
      <<"a", "_", "c", "/", "a", ".", "m", "p", "4">> }

\* a file left in the temp tree
LeftoverFile == [kind |-> "file", content |-> <<"leftover">>, size |-> 1,
                 times |-> Now]

\* the temp trees: the root, any of the leftovers, a file in the
\* subdirectory only where the subdirectory is
TempTrees ==
    { [p \in names \cup {Root} |->
          IF p \in {Root} \cup DirNames THEN NewDir ELSE LeftoverFile] :
      names \in { ns \in SUBSET LeftoverNames :
                    <<"a", "_", "c", "/", "a", ".", "m", "p", "4">> \in ns
                        => <<"a", "_", "c">> \in ns } }

InitReclaimer ==
    /\ args \in [suffix : Suffixes,
                  processes : 1..CpuCount,
                  maximum_expected_compression : Ceilings]
    /\ input = Put([p \in {Root} |-> DirEntry], ReclaimerInputFile,
                   [kind |-> "file", size |-> 1, codec |-> "none", csize |-> 0])
    /\ out = Put([p \in {Root} |-> NewDir], ReclaimerInputFile,
                 CopyOf(ReclaimerInputFile))
    /\ temp \in TempTrees
    /\ phase = "verify"
    /\ fatal = ""
    /\ first_run = NoRun
    /\ all_input_files = Glob(input)
    /\ all_output_files = Glob(out)
    /\ sorted_input = <<>>
    /\ sorted_output = <<>>
    /\ reported = {}
    /\ pc = [f \in Glob(input) |-> "done"]
    /\ tempname = [f \in Glob(input) |-> f]
    /\ outname = [f \in Glob(input) |-> f]

NextReclaimer == verify_compression_consistency \/ clean_up_temp_directory

SpecReclaimer == InitReclaimer /\ [][NextReclaimer]_vars

\* C20: the temp clean-up runs only after the verifier has passed; if a
\* regular file remains anywhere under the temp root it raises and deletes
\* nothing, otherwise it deletes the temp root; so the temp root is never
\* deleted while it holds a file.
C20_ReclaimerDeletesOnlyAnEmptyTree ==
    /\ [][phase' = "cleanup" => phase = "verify" /\ fatal' = ""]_vars
    /\ [][temp' # temp => phase = "cleanup"]_vars
    /\ [][phase = "cleanup"
            => IF Files(temp) # {}
               THEN phase' = "aborted" /\ fatal' # "" /\ temp' = temp
               ELSE phase' = "done" /\ temp' = NoTree]_vars

\* the same, "a regular file remains" being one that glob lists (no part of
\* its path starts with a dot): it holds
C20_ReclaimerSeesListedFiles ==
    /\ [][phase' = "cleanup" => phase = "verify" /\ fatal' = ""]_vars
    /\ [][temp' # temp => phase = "cleanup"]_vars
    /\ [][phase = "cleanup"
            => IF Files(temp) \cap Glob(temp) # {}
               THEN phase' = "aborted" /\ fatal' # "" /\ temp' = temp
               ELSE phase' = "done" /\ temp' = NoTree]_vars

----------------------------------------------------------------------------
(* Runs on input trees whose names differ in their extensions only: the    *)
(* adapters rewrite the extension of the temp name, so these are the names *)
(* whose temp paths could meet.                                            *)

\* two images and a video with the stem "a", an image with another stem
\* and a file of no implemented type
ExtensionNames ==
    { <<"a", ".", "j", "p", "g">>,
      <<"a", ".", "p", "n", "g">>,
      <<"a", ".", "M", "O", "V">>,
      <<"b", ".", "p", "n", "g">>,
      <<"c", ".", "t", "x", "t">> }

\* the input trees: the root and at most MaxEntries of these files
ExtensionTrees ==
    UNION { { t \in [names \cup {Root} ->
                       UNION { FileEntries(n) : n \in names } \cup {DirEntry}] :
                /\ t[Root] = DirEntry
                /\ \A n \in names : t[n] \in FileEntries(n) } :
            names \in { ns \in SUBSET ExtensionNames :
                           Cardinality(ns) <= MaxEntries } }

InitExtensions ==
    /\ args \in [suffix : Suffixes,
                  processes : {CpuCount},
                  maximum_expected_compression : Ceilings]
    /\ input \in ExtensionTrees
    /\ first_run = NoRun
    /\ Validated

SpecExtensions == InitExtensions /\ [][Next]_vars

\* the tasks whose adapter has returned a temp name
HasTempName == {f \in DOMAIN pc : pc[f] \in {"compressed", "checked", "written"}
                                  \/ (pc[f] = "done" /\ tempname[f] # f)}

\* the paths at which two temp trees differ
TempPathsChanged(before, after) ==
    {t \in DOMAIN before \cup DOMAIN after :
        \/ t \notin DOMAIN before
        \/ t \notin DOMAIN after
        \/ before[t] # after[t]}

\* C21: in a run that passed the collision check, the temp paths of two
\* distinct tasks differ, before and after the adapters corrected the
\* extension; every file in the temp tree is the candidate of the task
\* whose temp path it is at; and a step of a worker creates, replaces or
\* removes a temp file only at the temp path of its own task.
C21_TempPathsDisjoint ==
    /\ [](\A f, g \in DOMAIN tempname : f # g => tempname[f] # tempname[g])
    /\ [](\A t \in Files(temp) :
            \E f \in DOMAIN tempname :
                tempname[f] = t /\ temp[t].content = Candidate(f))
    /\ [][phase = "pool" =>
            \A t \in TempPathsChanged(temp, temp') :
                \E f \in DOMAIN pc : pc'[f] # pc[f] /\ tempname'[f] = t]_vars

\* C21 witness: the adapters corrected the extensions of two images, a PNG
\* named a.jpg and a JPEG named b.png, and both candidates are in the temp
\* tree
C21_Witness ==
    /\ phase = "pool"
    /\ <<"a", ".", "j", "p", "g">> \in HasTempName
    /\ <<"b", ".", "p", "n", "g">> \in HasTempName
    /\ tempname[<<"a", ".", "j", "p", "g">>] = <<"a", ".", "p", "n", "g">>
    /\ tempname[<<"b", ".", "p", "n", "g">>] = <<"b", ".", "j", "p", "g">>
    /\ isfile(temp, <<"a", ".", "p", "n", "g">>)
    /\ isfile(temp, <<"b", ".", "j", "p", "g">>)

----------------------------------------------------------------------------
(* The verifier on an output tree that the pipeline produced by its rules. *)

\* the output files the rules of the pipeline allow for input file f: a
\* verbatim copy at the path of f, or the candidate of f at the suffixed
\* path, no more compressed than the ceiling, a percentage, allows
ProducedFor(f) ==
    {q \in Files(out) :
        \/ /\ q = f
           /\ out[q].content = Original(f)
           /\ out[q].size = input[f].size
        \/ /\ f \in DOMAIN tempname
           /\ q = SuffixedName(f)
           /\ out[q].content = Candidate(f)
           /\ 100 * (input[f].size - out[q].size)
                 <= args.maximum_expected_compression * input[f].size}

\* every input file has exactly one output produced by the rules, no output
\* is that of two input files, and the output tree holds nothing else
EveryInputHasItsOutput ==
    /\ PoolHasFinished
    /\ pc # <<>>
    /\ \A f \in Files(input) : Cardinality(ProducedFor(f)) = 1
    /\ \A f, g \in Files(input) : f # g => ProducedFor(f) \cap ProducedFor(g) = {}
    /\ Files(out) = UNION { ProducedFor(f) : f \in Files(input) }
    /\ Dirs(out) = Dirs(input)

\* the exceptions only the verifier raises
VerifierErrors ==
    { "RuntimeError: count of output files did not match",
      "RuntimeError: file did not match",
      "ZeroDivisionError",
      "RuntimeError: unrealistic compression rate" }

\* C22: verifier completeness.  When every input file has exactly one
\* output produced by the rules of the pipeline and the output tree holds
\* nothing else, the verifier raises no error; input files of size 0, stems
\* that end with the suffix and an empty suffix are included.
C22_VerifierAcceptsPipelineOutput ==
    EveryInputHasItsOutput => fatal \notin VerifierErrors

\* the entries of the input tree whose name without extension ends with the
\* suffix
EndWithSuffix == {p \in DOMAIN input \ {Root} : EndsWith(splitext(p)[1], args.suffix)}

\* the same without the three cases the claim includes: no input file is
\* empty, no name ends with the suffix, the suffix is not empty.  It holds.
C22_VerifierAcceptsOrdinaryOutput ==
    (/\ EveryInputHasItsOutput
     /\ args.suffix # <<>>
     /\ EndWithSuffix = {}
     /\ \A f \in Files(input) : input[f].size > 0)
    => fatal \notin VerifierErrors

\* the case of an empty input file alone
C22_EmptyInputFile ==
    (/\ EveryInputHasItsOutput
     /\ args.suffix # <<>>
     /\ EndWithSuffix = {})
    => fatal \notin VerifierErrors

\* the case of a name that ends with the suffix alone
C22_StemEndsWithSuffix ==
    (/\ EveryInputHasItsOutput
     /\ args.suffix # <<>>
     /\ \A f \in Files(input) : input[f].size > 0)
    => fatal \notin VerifierErrors

\* the case of the empty suffix alone
C22_EmptySuffix ==
    (/\ EveryInputHasItsOutput
     /\ args.suffix = <<>>
     /\ \A f \in Files(input) : input[f].size > 0)
    => fatal \notin VerifierErrors

----------------------------------------------------------------------------
(* The input tree under validation.                                        *)

\* C23: the input tree is read-only.  For every configuration validation
\* accepts, roots given as different path strings of one directory
\* included, no step creates, deletes or modifies anything under the input
\* root: the input directory is after validation as it was found.
C23_InputTreeIsReadOnly ==
    [][(phase = "validate" /\ phase' = "prepare") => input' = input]_vars

\* the same when the three paths name three different directories.  It
\* holds.
C23_DistinctDirectoriesAreReadOnly ==
    [][(/\ phase = "validate"
        /\ Directory(args.input_directory) # Directory(args.output_directory)
        /\ Directory(args.input_directory) # Directory(args.temp_directory))
         => input' = input]_vars

====
